---- MODULE Spec2Model ----
(***************************************************************************)
(* State-machine model of the retrieval and fusion core of the RAG         *)
(* service: hierarchical chunking, ingestion, the pgvector chunk store     *)
(* (transactional upsert, dense search, sparse corpus fetch), the hybrid   *)
(* retriever with Reciprocal Rank Fusion and the answer orchestrator.      *)
(*                                                                         *)
(* Conventions.  A Python str is a sequence of one-character strings.  A   *)
(* Python dict is a function whose domain is its key set.  uuid4() is a    *)
(* fresh identifier: the n-th one drawn is Uuid(n).  Scores are exact      *)
(* fractions [num, den].  Python None is NoneStr in a str slot,            *)
(* NullEmbedding in the embedding column and NullTokens in sparse_tokens.  *)
(***************************************************************************)
EXTENDS Integers, Sequences, FiniteSets, TLC

VARIABLES
    store,      \* committed rows of document_chunks: chunk_id -> row
    now,        \* datetime.utcnow(), as a counter
    nextUuid,   \* how many uuid4() values have been drawn
    upsertCalls,\* direct upsert_chunks calls made so far
    txn,        \* the open session of an upsert_chunks call, if any
    lastCall,   \* outcome of the last finished upsert_chunks call
    ingestLog,  \* one record per ingest call, in call order
    lastRead,   \* the last store-level read: the rows its statement saw and
                \* the rows it returned
    q,          \* the answer request in progress (retrieve + generate)
    chunked,    \* the last call of the chunker on its own
    emb         \* the embedding adapter and its last two embed calls

vars == <<store, now, nextUuid, upsertCalls, txn, lastCall, ingestLog, lastRead, q,
          chunked, emb>>

-----------------------------------------------------------------------------
(* Bounds of the model *)

MaxUuid == 6        \* uuid4() values that may be drawn
MaxClock == 3       \* last value of the clock
MaxIngests == 2     \* ingest calls per behaviour
MaxUpserts == 2     \* direct upsert_chunks calls per behaviour
MaxBatch == 3       \* rows of a direct upsert_chunks batch
MaxReadLimit == 1   \* largest limit of a store-level read, the default aside
MaxTopK == 2        \* largest top_k of an answer request
MaxRrfK == 1        \* rrf_k ranges over 0..MaxRrfK and the default
MaxLines == 6       \* lines of a text handed to the chunker on its own
MaxEmbedBatch == 2  \* texts of one embed call

-----------------------------------------------------------------------------
(* Python values *)

NoneStr == "None"
NullEmbedding == [dim |-> 0, digest |-> <<>>]
NullTokens == [null |-> TRUE, toks |-> <<>>]

Min(a, b) == IF a <= b THEN a ELSE b

Range(s) == {s[i] : i \in 1..Len(s)}

\* identifiers that repeat after three draws
UuidOfThree(n) == "u" \o ToString(((n + 2) % 3) + 1)

Uuid(n) == "u" \o ToString(n)

DictGet(d, key, default) == IF key \in DOMAIN d THEN d[key] ELSE default

\* {**d, key: value}
DictSet(d, key, value) == (key :> value) @@ d

IsSpace(c) == c \in {" ", "\n"}

RECURSIVE LStrip(_)
LStrip(s) ==
    IF s = <<>> THEN <<>>
    ELSE IF IsSpace(Head(s)) THEN LStrip(Tail(s)) ELSE s

RECURSIVE RStrip(_)
RStrip(s) ==
    IF s = <<>> THEN <<>>
    ELSE IF IsSpace(s[Len(s)]) THEN RStrip(SubSeq(s, 1, Len(s) - 1)) ELSE s

\* str.strip()
Strip(s) == RStrip(LStrip(s))

\* str.split("\n"): the pieces between newlines, empty pieces kept
RECURSIVE SplitLinesFrom(_, _, _)
SplitLinesFrom(s, cur, out) ==
    IF s = <<>> THEN Append(out, cur)
    ELSE IF Head(s) = "\n" THEN SplitLinesFrom(Tail(s), <<>>, Append(out, cur))
    ELSE SplitLinesFrom(Tail(s), Append(cur, Head(s)), out)

SplitLines(s) == SplitLinesFrom(s, <<>>, <<>>)

RECURSIVE DropNewlines(_)
DropNewlines(s) ==
    IF s # <<>> /\ Head(s) = "\n" THEN DropNewlines(Tail(s)) ELSE s

\* default_split_regex.split(text): split on runs of two or more newlines
RECURSIVE RegexSplitFrom(_, _, _)
RegexSplitFrom(s, cur, out) ==
    IF s = <<>> THEN Append(out, cur)
    ELSE IF Len(s) >= 2 /\ s[1] = "\n" /\ s[2] = "\n"
         THEN RegexSplitFrom(DropNewlines(s), <<>>, Append(out, cur))
    ELSE RegexSplitFrom(Tail(s), Append(cur, Head(s)), out)

default_split_regex_split(text) == RegexSplitFrom(text, <<>>, <<>>)

\* "\n".join(lines)
RECURSIVE JoinLines(_)
JoinLines(lines) ==
    IF lines = <<>> THEN <<>>
    ELSE IF Len(lines) = 1 THEN lines[1]
    ELSE lines[1] \o <<"\n">> \o JoinLines(Tail(lines))

\* [x.strip() for x in pieces if x.strip()]
RECURSIVE StrippedNonBlank(_)
StrippedNonBlank(pieces) ==
    IF pieces = <<>> THEN <<>>
    ELSE IF Strip(Head(pieces)) = <<>> THEN StrippedNonBlank(Tail(pieces))
    ELSE <<Strip(Head(pieces))>> \o StrippedNonBlank(Tail(pieces))

\* str.lower() on the model's alphabet
LowerChar(c) ==
    IF c = "H" THEN "h" ELSE IF c = "S" THEN "s" ELSE IF c = "U" THEN "u" ELSE c

Lower(s) == [i \in 1..Len(s) |-> LowerChar(s[i])]

\* str.split(): maximal runs of non-whitespace
RECURSIVE SplitWsFrom(_, _, _)
SplitWsFrom(s, cur, out) ==
    IF s = <<>> THEN (IF cur = <<>> THEN out ELSE Append(out, cur))
    ELSE IF IsSpace(Head(s))
         THEN SplitWsFrom(Tail(s), <<>>, IF cur = <<>> THEN out ELSE Append(out, cur))
    ELSE SplitWsFrom(Tail(s), Append(cur, Head(s)), out)

SplitWs(s) == SplitWsFrom(s, <<>>, <<>>)

-----------------------------------------------------------------------------
(* Embedding adapter *)

FallbackDim == 768

\* EmbeddingService._fallback_embedding: the SHA-256 digest of the text,
\* repeated to dim bytes.  The digest is modelled as a collision-free tag
\* of the text.
FallbackEmbedding(text) == [dim |-> FallbackDim, digest |-> text]

\* EmbeddingService.embed without a loaded model, on one text
Embed(text) == FallbackEmbedding(text)

\* ord() on the alphabet of the model
CharCode(c) ==
    IF c = "a" THEN 97 ELSE IF c = "b" THEN 98 ELSE IF c = " " THEN 32 ELSE 63

RECURSIVE TextSum(_, _)
TextSum(text, i) ==
    IF i > Len(text) THEN 0 ELSE i * CharCode(text[i]) + TextSum(text, i + 1)

DigestLen == 32

\* hashlib.sha256(text.encode("utf-8")).digest(): DigestLen bytes that are a
\* fixed function of the text.  The bytes come from a stand-in mixing
\* function; only that they are bytes and depend on the text alone is used.
Sha256(text) ==
    [j \in 1..DigestLen |-> (TextSum(text, 1) * j + 7 * j * j + Len(text)) % 256]

\* the floats of a fallback embedding: byte b of the repeated digest,
\* cut to dim bytes, becomes b / 255.0
Components(embedding) ==
    CHOOSE floats \in
        {[i \in 1..embedding.dim |-> [num |-> digest[((i - 1) % DigestLen) + 1], den |-> 255]] :
            digest \in {Sha256(embedding.digest)}} : TRUE

\* vectors that depend on the first text of the batch
EmbedBatchMixed(texts) ==
    [i \in 1..Len(texts) |-> [dim |-> FallbackDim, digest |-> texts[i] \o texts[1]]]

\* EmbeddingService.embed without a loaded model, on a list of texts
EmbedBatch(texts) == [i \in 1..Len(texts) |-> Embed(texts[i])]

\* what model.encode(text_list).tolist() returns when it returns: one
\* vector of the model per text
EncodeBatch(texts, dim) == [i \in 1..Len(texts) |-> [dim |-> dim, encoded |-> texts[i]]]

\* EmbeddingService.tokenize
Tokenize(text) ==
    LET parts == SplitWs(text)
    IN  [i \in 1..Len(parts) |-> Lower(parts[i])]

-----------------------------------------------------------------------------
(* Chunker *)

TitleMaxLen == 80

UntitledSection ==
    <<"U", "n", "t", "i", "t", "l", "e", "d", " ", "S", "e", "c", "t", "i", "o", "n">>

\* HierarchicalChunker._extract_heading
ExtractHeading(segment) ==
    LET lines == StrippedNonBlank(SplitLines(segment))
    IN  IF lines = <<>>
        THEN [heading |-> UntitledSection, body |-> <<>>]
        ELSE [heading |-> lines[1],
              body |-> IF Len(lines) > 1 THEN JoinLines(Tail(lines)) ELSE <<>>]

\* HierarchicalChunker._split_sections
SplitSections(text) ==
    LET segments == default_split_regex_split(text)
    IN  [i \in 1..Len(segments) |-> ExtractHeading(segments[i])]

\* the paragraph texts of HierarchicalChunker._split_paragraphs
SplitParagraphs(body) == StrippedNonBlank(SplitLines(body))

\* HierarchicalChunker._make_chunk; the uuid4() of the chunk is Uuid(n)
MakeChunk(n, document_id, parent_id, level, content, metadata) ==
    [chunk_id |-> Uuid(n), document_id |-> document_id, parent_id |-> parent_id,
     level |-> level, content |-> Strip(content), metadata |-> metadata]

\* a section whose paragraphs hang under a chunk that is never made
SectionChunksOrphanParagraphs(first, document_id, title_id, section, metadata) ==
    LET paragraphs == SplitParagraphs(section.body)
        section_chunk == MakeChunk(first, document_id, title_id, "section",
                                   section.heading, metadata)
    IN  <<section_chunk>> \o
        [i \in 1..Len(paragraphs) |->
            [chunk_id |-> Uuid(first + i), document_id |-> document_id,
             parent_id |-> Uuid(0), level |-> "paragraph",
             content |-> paragraphs[i], metadata |-> metadata]]

\* the chunks of one section: the section chunk, then its paragraphs;
\* first is the number of the first uuid4() drawn for them
SectionChunks(first, document_id, title_id, section, metadata) ==
    LET paragraphs == SplitParagraphs(section.body)
        section_chunk == MakeChunk(first, document_id, title_id, "section",
                                   section.heading, metadata)
    IN  <<section_chunk>> \o
        [i \in 1..Len(paragraphs) |->
            [chunk_id |-> Uuid(first + i), document_id |-> document_id,
             parent_id |-> section_chunk.chunk_id, level |-> "paragraph",
             content |-> paragraphs[i], metadata |-> metadata]]

RECURSIVE SectionsChunks(_, _, _, _, _)
SectionsChunks(first, document_id, title_id, sections, metadata) ==
    IF sections = <<>> THEN <<>>
    ELSE LET here == SectionChunks(first, document_id, title_id, Head(sections), metadata)
         IN  here \o SectionsChunks(first + Len(here), document_id, title_id,
                                    Tail(sections), metadata)

\* HierarchicalChunker.chunk_document; first numbers its first uuid4()
chunk_document(first, document_id, text, metadata) ==
    IF Strip(text) = <<>> THEN <<>>
    ELSE LET title_chunk ==
                 MakeChunk(first, document_id, NoneStr, "title",
                           DictGet(metadata, "title",
                                   SubSeq(text, 1, Min(TitleMaxLen, Len(text)))),
                           metadata)
         IN  <<title_chunk>> \o
             SectionsChunks(first + 1, document_id, title_chunk.chunk_id,
                            SplitSections(text), metadata)

-----------------------------------------------------------------------------
(* Ingestion pipeline: the payloads IngestionService.ingest hands to the   *)
(* store.  parsed is what table_service.parse returned: [text, tables].    *)

\* metadata.get("document_id") or str(uuid.uuid4())
HasDocumentId(metadata) == DictGet(metadata, "document_id", "") # ""

IngestDocumentId(first, metadata) ==
    IF HasDocumentId(metadata) THEN metadata["document_id"] ELSE Uuid(first)

RECURSIVE NonEmptyTables(_)
NonEmptyTables(tables) ==
    IF tables = <<>> THEN <<>>
    ELSE IF Head(tables).csv = <<>> THEN NonEmptyTables(Tail(tables))
    ELSE <<Head(tables)>> \o NonEmptyTables(Tail(tables))

\* the table chunks of ingest; first numbers their first uuid4()
TableChunks(first, document_id, base_metadata, tables, filename) ==
    LET kept == NonEmptyTables(tables)
    IN  [i \in 1..Len(kept) |->
            [chunk_id |-> Uuid(first + i - 1), document_id |-> document_id,
             parent_id |-> NoneStr, level |-> "table", content |-> kept[i].csv,
             metadata |-> DictSet(DictSet(DictSet(base_metadata,
                              "table_id", kept[i].table_id),
                              "table_title", kept[i].title),
                              "source_file", filename)]]

\* the chunks of one ingest call, chunker chunks first, then table chunks
IngestChunks(first, metadata, parsed, filename) ==
    LET document_id == IngestDocumentId(first, metadata)
        after_id == IF HasDocumentId(metadata) THEN first ELSE first + 1
        base_metadata == DictSet(metadata, "document_id", document_id)
        chunks == chunk_document(after_id, document_id, parsed.text, base_metadata)
    IN  chunks \o TableChunks(after_id + Len(chunks), document_id, base_metadata,
                              parsed.tables, filename)

\* how many uuid4() values the call draws
IngestUuids(metadata, parsed, filename) ==
    Len(IngestChunks(1, metadata, parsed, filename))
        + (IF HasDocumentId(metadata) THEN 0 ELSE 1)

\* the payload built for one chunk
IngestPayload(chunk) ==
    [chunk_id |-> chunk.chunk_id, document_id |-> chunk.document_id,
     parent_id |-> chunk.parent_id, level |-> chunk.level,
     content |-> chunk.content,
     metadata |-> DictSet(chunk.metadata, "level", chunk.level),
     embedding |-> Embed(chunk.content),
     sparse_tokens |-> [null |-> FALSE, toks |-> Tokenize(chunk.content)]]

IngestPayloads(first, metadata, parsed, filename) ==
    LET chunks == IngestChunks(first, metadata, parsed, filename)
    IN  [i \in 1..Len(chunks) |-> IngestPayload(chunks[i])]

-----------------------------------------------------------------------------
(* Chunk store *)

EmptyStore == [id \in {} |-> id]

\* the row an INSERT of the payload creates at time t (created_at default)
InsertRow(payload, t) ==
    [document_id |-> payload.document_id, parent_id |-> payload.parent_id,
     level |-> payload.level, content |-> payload.content,
     metadata |-> payload.metadata,
     embedding |-> DictGet(payload, "embedding", NullEmbedding),
     sparse_tokens |-> DictGet(payload, "sparse_tokens", NullTokens),
     created_at |-> t]

\* a conflict handled by replacing the whole row, created_at included
OnConflictReplaceRow(old, payload, t) ==
    [old EXCEPT !.content = payload.content,
                !.metadata = payload.metadata,
                !.embedding = DictGet(payload, "embedding", NullEmbedding),
                !.sparse_tokens = DictGet(payload, "sparse_tokens", NullTokens),
                !.created_at = t]

\* ON CONFLICT (id) DO UPDATE SET content, metadata, embedding, sparse_tokens
OnConflictDoUpdate(old, payload, t) ==
    [old EXCEPT !.content = payload.content,
                !.metadata = payload.metadata,
                !.embedding = DictGet(payload, "embedding", NullEmbedding),
                !.sparse_tokens = DictGet(payload, "sparse_tokens", NullTokens)]

\* one statement of upsert_chunks, executed at time t on the session's rows
UpsertRow(rows, payload, t) ==
    IF payload.chunk_id \in DOMAIN rows
    THEN [rows EXCEPT ![payload.chunk_id] = OnConflictDoUpdate(@, payload, t)]
    ELSE (payload.chunk_id :> InsertRow(payload, t)) @@ rows

\* all statements of a batch, executed at time t
RECURSIVE UpsertRows(_, _, _)
UpsertRows(rows, batch, t) ==
    IF batch = <<>> THEN rows
    ELSE UpsertRows(UpsertRow(rows, Head(batch), t), Tail(batch), t)

\* session_scope: commit publishes the session's rows
SessionCommit(committed, rows) == rows

\* a rollback that keeps what the session had written
RollbackKeepsWrites(committed, rows) == rows

\* session_scope: rollback leaves the committed rows as they were
SessionRollback(committed, rows) == committed

\* a read that sees the uncommitted rows of the open session
ReadUncommitted(committed, open) == IF open.active THEN open.view ELSE committed

\* what a statement of another session sees while open is the upsert session
ReadSnapshot(committed, open) == committed

NoTxn ==
    [active |-> FALSE, caller |-> "none", rows |-> <<>>, pos |-> 0,
     view |-> EmptyStore, pre |-> EmptyStore]

NoCall ==
    [op |-> "none", rows |-> <<>>, raised |-> FALSE, failedAt |-> 0,
     count |-> 0, pre |-> EmptyStore]

NoRead == [op |-> "none", limit |-> 0, ids |-> {}, visible |-> {}, open_pos |-> -1]

\* how many rows the open upsert session had executed, -1 without one
OpenPos == IF txn.active THEN txn.pos ELSE -1

SparseCorpusLimit == 5000

\* WHERE embedding IS NOT NULL
DenseCandidates(rows) == {id \in DOMAIN rows : rows[id].embedding # NullEmbedding}

\* the sets of rows a LIMIT limit query over candidates may return
LimitedSets(candidates, limit) ==
    {S \in SUBSET candidates : Cardinality(S) = Min(limit, Cardinality(candidates))}

-----------------------------------------------------------------------------
(* Scores: exact fractions with a positive denominator *)

Frac(n, d) == [num |-> n, den |-> d]

FracAdd(a, b) == [num |-> a.num * b.den + b.num * a.den, den |-> a.den * b.den]

FracEq(a, b) == a.num * b.den = b.num * a.den

FracLt(a, b) == a.num * b.den < b.num * a.den

\* sorted(items, key=score, reverse=True): a stable sort, equal scores keep
\* their order
RECURSIVE InsertByScore(_, _)
InsertByScore(sorted, x) ==
    IF sorted = <<>> THEN <<x>>
    ELSE IF FracLt(Head(sorted).score, x.score) THEN <<x>> \o sorted
    ELSE <<Head(sorted)>> \o InsertByScore(Tail(sorted), x)

RECURSIVE SortFrom(_, _)
SortFrom(sorted, rest) ==
    IF rest = <<>> THEN sorted
    ELSE SortFrom(InsertByScore(sorted, Head(rest)), Tail(rest))

SortedByScoreDesc(items) == SortFrom(<<>>, items)

\* items[:n]
Take(items, n) == SubSeq(items, 1, Min(n, Len(items)))

\* the position of chunk_id in a list of hits, 0 when it is not there
PositionOf(items, chunk_id) ==
    IF \E i \in 1..Len(items) : items[i].chunk_id = chunk_id
    THEN CHOOSE i \in 1..Len(items) : items[i].chunk_id = chunk_id
    ELSE 0

ChunkIds(items) == {items[i].chunk_id : i \in 1..Len(items)}

-----------------------------------------------------------------------------
(* Store reads as the retriever sees them *)

\* the orders a query may return n of the candidate rows in
RowOrders(candidates, limit) ==
    LET n == Min(limit, Cardinality(candidates))
    IN  {o \in [1..n -> candidates] : \A i, j \in 1..n : i < j => o[i] # o[j]}

\* abstract levels of the cosine distance between a row and the query vector
DistanceLevels == {0, 2}

\* cosine_distance is a function of the embedding
Distances(rows) ==
    {d \in [DenseCandidates(rows) -> DistanceLevels] :
        \A x, y \in DenseCandidates(rows) :
            rows[x].embedding = rows[y].embedding => d[x] = d[y]}

\* ORDER BY distance LIMIT limit
OrderedByDistance(order, rows, d) ==
    /\ \A i, j \in 1..Len(order) : i < j => d[order[i]] <= d[order[j]]
    /\ \A id \in DenseCandidates(rows) \ Range(order) :
          \A i \in 1..Len(order) : d[order[i]] <= d[id]

\* the hits dense_search builds from the rows the query returned
dense_search(rows, order, d) ==
    [i \in 1..Len(order) |->
        [chunk_id |-> order[i],
         document_id |-> rows[order[i]].document_id,
         content |-> rows[order[i]].content,
         level |-> rows[order[i]].level,
         metadata |-> rows[order[i]].metadata,
         score |-> Frac(1 - d[order[i]], 1)]]

\* the records fetch_sparse_corpus builds from the rows the query returned
fetch_sparse_corpus(rows, order) ==
    [i \in 1..Len(order) |->
        [chunk_id |-> order[i],
         document_id |-> rows[order[i]].document_id,
         content |-> rows[order[i]].content,
         tokens |-> IF rows[order[i]].sparse_tokens.null THEN <<>>
                    ELSE rows[order[i]].sparse_tokens.toks,
         metadata |-> rows[order[i]].metadata]]

-----------------------------------------------------------------------------
(* Hybrid retriever and Reciprocal Rank Fusion *)

\* abstract values of a BM25 score
SparseScores == {0, 1}

\* BM25Okapi.get_scores: one score per corpus document; a document sharing
\* no token with the query scores 0, documents with the same tokens score
\* the same
Bm25Scores(corpus, query_tokens) ==
    {sc \in [1..Len(corpus) -> SparseScores] :
        /\ \A i \in 1..Len(corpus) :
              Range(corpus[i].tokens) \cap Range(query_tokens) = {} => sc[i] = 0
        /\ \A i, j \in 1..Len(corpus) :
              corpus[i].tokens = corpus[j].tokens => sc[i] = sc[j]}

PositiveScore(item) == item.score.num > 0

\* a sparse branch that drops the documents scoring zero
sparse_retrieval_matching_only(corpus, scores, top_k) ==
    IF corpus = <<>> THEN <<>>
    ELSE LET items ==
                 [i \in 1..Len(corpus) |->
                     [chunk_id |-> corpus[i].chunk_id,
                      document_id |-> corpus[i].document_id,
                      content |-> corpus[i].content,
                      level |-> DictGet(corpus[i].metadata, "level", "paragraph"),
                      metadata |-> corpus[i].metadata,
                      score |-> Frac(scores[i], 1)]]
         IN  Take(SortedByScoreDesc(SelectSeq(items, PositiveScore)), top_k)

\* HybridRetriever._sparse_retrieval after the corpus was fetched
sparse_retrieval(corpus, scores, top_k) ==
    IF corpus = <<>> THEN <<>>
    ELSE LET items ==
                 [i \in 1..Len(corpus) |->
                     [chunk_id |-> corpus[i].chunk_id,
                      document_id |-> corpus[i].document_id,
                      content |-> corpus[i].content,
                      level |-> DictGet(corpus[i].metadata, "level", "paragraph"),
                      metadata |-> corpus[i].metadata,
                      score |-> Frac(scores[i], 1)]]
         IN  Take(SortedByScoreDesc(items), top_k)

\* a contribution weighted by the raw score of the item
ScoreWeightedContribution(k, rank, raw_score) ==
    Frac(raw_score.num, raw_score.den * (k + rank))

\* 1.0 / (k + rank); the raw score of the item is not read
RankContribution(k, rank, raw_score) == Frac(1, k + rank)

\* an accumulator that is assigned instead of added to
AccumulatorAssign(old, contribution) == contribution

\* accumulator[chunk_id] += contribution
AccumulatorAdd(old, contribution) == FracAdd(old, contribution)

\* one item of one source: accumulate, provenance.setdefault
FuseItem(acc, source, chunk_id, contribution) ==
    LET at == PositionOf(acc, chunk_id)
    IN  IF at = 0
        THEN Append(acc, [chunk_id |-> chunk_id,
                          score |-> AccumulatorAdd(Frac(0, 1), contribution),
                          provenance |-> source])
        ELSE [acc EXCEPT ![at].score = AccumulatorAdd(@, contribution)]

RECURSIVE FuseItems(_, _, _, _, _)
FuseItems(acc, source, items, rank, k) ==
    IF rank > Len(items) THEN acc
    ELSE FuseItems(FuseItem(acc, source, items[rank].chunk_id,
                            RankContribution(k, rank, items[rank].score)),
                   source, items, rank + 1, k)

RECURSIVE FuseSources(_, _, _)
FuseSources(acc, rankings, k) ==
    IF rankings = <<>> THEN acc
    ELSE FuseSources(FuseItems(acc, Head(rankings).source, Head(rankings).items, 1, k),
                     Tail(rankings), k)

\* utils.rrf.reciprocal_rank_fusion; rankings lists the sources in dict order
reciprocal_rank_fusion(rankings, k) ==
    SortedByScoreDesc(FuseSources(<<>>, rankings, k))

\* the (chunk_id, score) pairs retrieve passes for one source
RankingItems(hits) ==
    [i \in 1..Len(hits) |-> [chunk_id |-> hits[i].chunk_id, score |-> hits[i].score]]

Rankings(dense_hits, sparse_hits) ==
    <<[source |-> "dense", items |-> RankingItems(dense_hits)],
      [source |-> "sparse", items |-> RankingItems(sparse_hits)]>>

\* the branches merged the other way round
MergedHitsDenseLast(dense_hits, sparse_hits) == sparse_hits \o dense_hits

\* the list the dict comprehension of enriched runs over
MergedHits(dense_hits, sparse_hits) == dense_hits \o sparse_hits

\* enriched[chunk_id]: the last hit of the merged list with that chunk_id
Enriched(dense_hits, sparse_hits, chunk_id) ==
    LET merged == MergedHits(dense_hits, sparse_hits)
        last == CHOOSE i \in 1..Len(merged) :
                    /\ merged[i].chunk_id = chunk_id
                    /\ \A j \in 1..Len(merged) : merged[j].chunk_id = chunk_id => j <= i
    IN  merged[last]

\* a cut at twice top_k
TruncateAtDenseLimit(ranked, top_k) == Take(ranked, 2 * top_k)

\* ranked[:top_k]
Truncate(ranked, top_k) == Take(ranked, top_k)

\* HybridRetriever.retrieve after both branches returned
Retrieve(dense_hits, sparse_hits, fused, top_k) ==
    LET ranked == SortedByScoreDesc(
                      [i \in 1..Len(fused) |->
                          [Enriched(dense_hits, sparse_hits, fused[i].chunk_id)
                              EXCEPT !.score = fused[i].score]])
    IN  Truncate(ranked, top_k)

-----------------------------------------------------------------------------
(* Answer orchestrator *)

NotFoundAnswer ==
    [kind |-> "No relevant answer found.", question |-> <<>>, chunk_id |-> "",
     content |-> <<>>]

\* what chain.invoke returned
GeneratedAnswer(question) ==
    [kind |-> "generated", question |-> question, chunk_id |-> "", content |-> <<>>]

\* a fallback built from the last hit
FallbackFromLastHit(hits, question) ==
    [kind |-> "Answer synthesized without LLM due to configuration limits.",
     question |-> question, chunk_id |-> hits[Len(hits)].chunk_id,
     content |-> hits[Len(hits)].content]

\* QueryOrchestrator._fallback_answer: the question, then the chunk_id and
\* the content of hits[0]
FallbackAnswer(hits, question) ==
    [kind |-> "Answer synthesized without LLM due to configuration limits.",
     question |-> question, chunk_id |-> hits[1].chunk_id,
     content |-> hits[1].content]

\* groundedness read off the references of the response
GroundedFromReferences(hits, references) == references # <<>>

\* grounded=bool(hits)
Grounded(hits, references) == hits # <<>>

-----------------------------------------------------------------------------
(* Inputs of the store specification *)

DirectContents == {<<"a">>, <<"b">>}

\* payloads of direct upsert_chunks calls; the second kind leaves out the
\* optional embedding and sparse_tokens keys
DirectPayloads ==
    {[chunk_id |-> "c1", document_id |-> "d1", parent_id |-> NoneStr,
      level |-> "paragraph", content |-> c,
      metadata |-> [document_id |-> "d1", level |-> "paragraph"],
      embedding |-> Embed(c),
      sparse_tokens |-> [null |-> FALSE, toks |-> Tokenize(c)]] : c \in DirectContents}
    \cup
    {[chunk_id |-> "c2", document_id |-> "d2", parent_id |-> NoneStr,
      level |-> "section", content |-> <<"a">>,
      metadata |-> [document_id |-> "d2"]]}

DirectBatches ==
    UNION {[1..n -> DirectPayloads] : n \in 0..MaxBatch}

IngestMetadata == {[document_id |-> "d1"], [filing_type |-> "10K"]}

Table1 == [table_id |-> "t1", title |-> "tt", csv |-> <<"x", ",", "y">>]
TableEmpty == [table_id |-> "t2", title |-> "te", csv |-> <<>>]

\* what table_service.parse may return for the uploaded bytes
IngestParsed ==
    {[text |-> <<"H", "\n", "b">>, tables |-> <<>>],
     [text |-> <<"a">>, tables |-> <<TableEmpty>>],
     [text |-> <<" ">>, tables |-> <<Table1>>],
     [text |-> <<>>, tables |-> <<>>]}

Filename == "f.txt"

ReadLimits == 1..MaxReadLimit \cup {SparseCorpusLimit}

-----------------------------------------------------------------------------
(* Actions of the store specification *)

DefaultRrfK == 60

\* an orchestrator that has served no request yet, built with settings
\* rrf_k and with or without a generation chain
IdleQuery(rrf_k, chain) ==
    [pc |-> "idle", rrf_k |-> rrf_k, chain |-> chain, question |-> <<>>,
     top_k |-> 0, audit_trail |-> FALSE,
     distance |-> <<>>, dense_visible |-> {}, bm25 |-> <<>>, sparse_visible |-> {},
     dense_hits |-> <<>>,
     sparse_hits |-> <<>>, fused |-> <<>>, hits |-> <<>>, llm |-> "not_invoked",
     llm_calls |-> 0, answer |-> NotFoundAnswer, references |-> <<>>,
     grounded |-> FALSE]

NoQuery == IdleQuery(DefaultRrfK, FALSE)

\* a chunker that has not been called on its own
NoChunked ==
    [pc |-> "idle", document_id |-> "", text |-> <<>>, metadata |-> <<>>,
     chunks |-> <<>>]

\* Settings.embedding_dim
DefaultEmbeddingDim == 768

\* an adapter built for a store of dimension embedding_dim, with or without
\* a loaded model, that has served no embed call
IdleEmbedder(embedding_dim, model) ==
    [embedding_dim |-> embedding_dim, model |-> model, calls |-> <<>>]

NoEmb == IdleEmbedder(DefaultEmbeddingDim, FALSE)

InitStore ==
    /\ store = EmptyStore
    /\ now = 1
    /\ nextUuid = 0
    /\ upsertCalls = 0
    /\ txn = NoTxn
    /\ lastCall = NoCall
    /\ ingestLog = <<>>
    /\ lastRead = NoRead
    /\ q = NoQuery
    /\ chunked = NoChunked
    /\ emb = NoEmb

\* upsert_chunks up to the opening of the session; time has passed since
\* the previous call
BeginUpsert(caller, rows) ==
    IF rows = <<>>
    THEN /\ lastCall' = [NoCall EXCEPT !.op = caller, !.pre = store]
         /\ txn' = txn
         /\ now' = now
    ELSE /\ txn' = [active |-> TRUE, caller |-> caller, rows |-> rows, pos |-> 0,
                    view |-> store, pre |-> store]
         /\ lastCall' = lastCall
         /\ now' = Min(now + 1, MaxClock)

\* a direct call of PGVectorStore.upsert_chunks
UpsertChunks ==
    /\ ~txn.active
    /\ upsertCalls < MaxUpserts
    /\ upsertCalls' = upsertCalls + 1
    /\ \E batch \in DirectBatches : BeginUpsert("upsert_chunks", batch)
    /\ UNCHANGED <<store, nextUuid, ingestLog, lastRead, q, chunked, emb>>

\* the dict ingest returns once upsert_chunks returned stored
IngestResult(entry, stored) ==
    [chunks |-> stored, tables |-> Len(entry.parsed.tables),
     document_id |-> entry.document_id]

\* IngestionService.ingest up to its call of upsert_chunks
Ingest ==
    /\ ~txn.active
    /\ Len(ingestLog) < MaxIngests
    /\ \E metadata \in IngestMetadata, parsed \in IngestParsed :
         LET payloads == IngestPayloads(nextUuid + 1, metadata, parsed, Filename)
             entry == [metadata |-> metadata, parsed |-> parsed,
                       document_id |-> IngestDocumentId(nextUuid + 1, metadata),
                       chunk_ids |-> [i \in 1..Len(payloads) |-> payloads[i].chunk_id],
                       rows_before |-> Cardinality(DOMAIN store),
                       status |-> "running",
                       result |-> [chunks |-> 0, tables |-> 0, document_id |-> ""]]
         IN  /\ nextUuid + IngestUuids(metadata, parsed, Filename) <= MaxUuid
             /\ nextUuid' = nextUuid + IngestUuids(metadata, parsed, Filename)
             /\ BeginUpsert("ingest", payloads)
             /\ ingestLog' = Append(ingestLog,
                    IF payloads = <<>>
                    THEN [entry EXCEPT !.status = "done",
                                       !.result = IngestResult(entry, 0)]
                    ELSE entry)
    /\ UNCHANGED <<store, upsertCalls, lastRead, q, chunked, emb>>

\* the ingest call that owns the open session returns or raises
FinishIngest(status, stored) ==
    IF txn.caller = "ingest"
    THEN LET entry == ingestLog[Len(ingestLog)]
         IN  ingestLog' = [ingestLog EXCEPT ![Len(ingestLog)] =
                 [entry EXCEPT !.status = status,
                               !.result = IF status = "done"
                                          THEN IngestResult(entry, stored)
                                          ELSE entry.result]]
    ELSE ingestLog' = ingestLog

\* session.execute(stmt) for the next row of the batch
ExecuteRow ==
    /\ txn.active
    /\ txn.pos < Len(txn.rows)
    /\ txn' = [txn EXCEPT !.pos = @ + 1,
                          !.view = UpsertRow(@, txn.rows[txn.pos + 1], now)]
    /\ UNCHANGED <<store, now, nextUuid, upsertCalls, lastCall, ingestLog, lastRead, q, chunked, emb>>

\* session.execute(stmt) raises on the next row: rollback, re-raise
ExecuteRowFails ==
    /\ txn.active
    /\ txn.pos < Len(txn.rows)
    /\ store' = SessionRollback(store, txn.view)
    /\ lastCall' = [op |-> txn.caller, rows |-> txn.rows, raised |-> TRUE,
                    failedAt |-> txn.pos + 1, count |-> 0, pre |-> txn.pre]
    /\ FinishIngest("raised", 0)
    /\ txn' = NoTxn
    /\ UNCHANGED <<now, nextUuid, upsertCalls, lastRead, q, chunked, emb>>

\* session.commit() succeeds; upsert_chunks returns len(rows)
Commit ==
    /\ txn.active
    /\ txn.pos = Len(txn.rows)
    /\ store' = SessionCommit(store, txn.view)
    /\ lastCall' = [op |-> txn.caller, rows |-> txn.rows, raised |-> FALSE,
                    failedAt |-> 0, count |-> Len(txn.rows), pre |-> txn.pre]
    /\ FinishIngest("done", Len(txn.rows))
    /\ txn' = NoTxn
    /\ UNCHANGED <<now, nextUuid, upsertCalls, lastRead, q, chunked, emb>>

\* session.commit() raises: rollback, re-raise
CommitFails ==
    /\ txn.active
    /\ txn.pos = Len(txn.rows)
    /\ store' = SessionRollback(store, txn.view)
    /\ lastCall' = [op |-> txn.caller, rows |-> txn.rows, raised |-> TRUE,
                    failedAt |-> Len(txn.rows) + 1, count |-> 0, pre |-> txn.pre]
    /\ FinishIngest("raised", 0)
    /\ txn' = NoTxn
    /\ UNCHANGED <<now, nextUuid, upsertCalls, lastRead, q, chunked, emb>>

\* a call of PGVectorStore.dense_search by a concurrent request; lastRead
\* keeps which rows it returned
StoreDenseSearch ==
    /\ \E limit \in ReadLimits :
         \E ids \in LimitedSets(DenseCandidates(ReadSnapshot(store, txn)), limit) :
            lastRead' = [op |-> "dense_search", limit |-> limit, ids |-> ids,
                         visible |-> DOMAIN ReadSnapshot(store, txn),
                         open_pos |-> OpenPos]
    /\ UNCHANGED <<store, now, nextUuid, upsertCalls, txn, lastCall, ingestLog, q, chunked, emb>>

\* a call of PGVectorStore.fetch_sparse_corpus by a concurrent request
StoreFetchSparseCorpus ==
    /\ \E limit \in ReadLimits :
         \E ids \in LimitedSets(DOMAIN ReadSnapshot(store, txn), limit) :
            lastRead' = [op |-> "fetch_sparse_corpus", limit |-> limit, ids |-> ids,
                         visible |-> DOMAIN ReadSnapshot(store, txn),
                         open_pos |-> OpenPos]
    /\ UNCHANGED <<store, now, nextUuid, upsertCalls, txn, lastCall, ingestLog, q, chunked, emb>>

NextStore ==
    \/ UpsertChunks
    \/ ExecuteRow
    \/ ExecuteRowFails
    \/ Commit
    \/ CommitFails

\* direct upsert_chunks calls on the store
SpecStore == InitStore /\ [][NextStore]_vars

NextIngest ==
    \/ Ingest
    \/ ExecuteRow
    \/ ExecuteRowFails
    \/ Commit
    \/ CommitFails
    \/ StoreDenseSearch
    \/ StoreFetchSparseCorpus

\* ingest calls with concurrent store reads
SpecIngest == InitStore /\ [][NextIngest]_vars

-----------------------------------------------------------------------------
(* Inputs of the query specification *)

QueryPayloadA ==
    [chunk_id |-> "u1", document_id |-> "d1", parent_id |-> NoneStr,
     level |-> "title", content |-> <<"a">>,
     metadata |-> [document_id |-> "d1", level |-> "title"],
     embedding |-> Embed(<<"a">>),
     sparse_tokens |-> [null |-> FALSE, toks |-> Tokenize(<<"a">>)]]

\* a row whose metadata carries no level
QueryPayloadB ==
    [chunk_id |-> "u2", document_id |-> "d1", parent_id |-> "u1",
     level |-> "section", content |-> <<"a", " ", "b">>,
     metadata |-> [document_id |-> "d1"],
     embedding |-> Embed(<<"a", " ", "b">>),
     sparse_tokens |-> [null |-> FALSE, toks |-> Tokenize(<<"a", " ", "b">>)]]

\* a row without embedding and sparse_tokens
QueryPayloadB2 ==
    [chunk_id |-> "u2", document_id |-> "d1", parent_id |-> "u1",
     level |-> "section", content |-> <<"b">>,
     metadata |-> [document_id |-> "d1", level |-> "section"]]

QueryPayloadC ==
    [chunk_id |-> "u3", document_id |-> "d2", parent_id |-> NoneStr,
     level |-> "paragraph", content |-> <<"a">>,
     metadata |-> [document_id |-> "d2", level |-> "paragraph"],
     embedding |-> Embed(<<"a">>),
     sparse_tokens |-> [null |-> FALSE, toks |-> Tokenize(<<"a">>)]]

\* the stores the query specification starts from: what upsert_chunks
\* leaves after one batch
QueryStores ==
    {UpsertRows(EmptyStore, a \o b \o c, 1) :
        a \in {<<>>, <<QueryPayloadA>>},
        b \in {<<>>, <<QueryPayloadB>>, <<QueryPayloadB2>>},
        c \in {<<>>, <<QueryPayloadC>>}}

Questions == {<<"a">>, <<"z">>}

RrfKs == 0..MaxRrfK \cup {DefaultRrfK}

DenseFactor == 2
SparseFactor == 4

-----------------------------------------------------------------------------
(* Actions of the query specification *)

InitQuery ==
    /\ store \in QueryStores
    /\ now = 1
    /\ nextUuid = 0
    /\ upsertCalls = 0
    /\ txn = NoTxn
    /\ lastCall = NoCall
    /\ ingestLog = <<>>
    /\ lastRead = NoRead
    /\ \E rrf_k \in RrfKs, chain \in BOOLEAN : q = IdleQuery(rrf_k, chain)
    /\ chunked = NoChunked
    /\ emb = NoEmb

\* QueryOrchestrator.answer up to the return of _dense_retrieval
AnswerDenseRetrieval ==
    /\ q.pc = "idle"
    /\ \E question \in Questions, top_k \in 0..MaxTopK, audit_trail \in BOOLEAN :
         LET rows == ReadSnapshot(store, txn)
         IN  \E d \in Distances(rows) :
               \E order \in RowOrders(DenseCandidates(rows), DenseFactor * top_k) :
                 /\ OrderedByDistance(order, rows, d)
                 /\ q' = [q EXCEPT !.pc = "sparse",
                                   !.question = question,
                                   !.top_k = top_k,
                                   !.audit_trail = audit_trail,
                                   !.distance = d,
                                   !.dense_visible = DOMAIN rows,
                                   !.dense_hits = dense_search(rows, order, d)]
    /\ UNCHANGED <<store, now, nextUuid, upsertCalls, txn, lastCall, ingestLog, lastRead, chunked, emb>>

\* _sparse_retrieval, then the fusion: retrieve returns q.hits
RetrieveSparseAndFuse ==
    /\ q.pc = "sparse"
    /\ LET rows == ReadSnapshot(store, txn)
       IN  \E order \in RowOrders(DOMAIN rows, SparseCorpusLimit) :
             LET corpus == fetch_sparse_corpus(rows, order)
             IN  \E scores \in Bm25Scores(corpus, Tokenize(q.question)) :
                   LET sparse_hits == sparse_retrieval(corpus, scores,
                                                       SparseFactor * q.top_k)
                       fused == reciprocal_rank_fusion(
                                    Rankings(q.dense_hits, sparse_hits), q.rrf_k)
                   IN  q' = [q EXCEPT !.pc = "generate",
                                      !.bm25 = [id \in Range(order) |->
                                                  scores[CHOOSE i \in 1..Len(order) :
                                                             order[i] = id]],
                                      !.sparse_visible = DOMAIN rows,
                                      !.sparse_hits = sparse_hits,
                                      !.fused = fused,
                                      !.hits = Retrieve(q.dense_hits, sparse_hits,
                                                        fused, q.top_k)]
    /\ UNCHANGED <<store, now, nextUuid, upsertCalls, txn, lastCall, ingestLog, lastRead, chunked, emb>>

\* the QueryResult answer builds from the answer string
AnswerResult(answer, llm, llm_calls) ==
    LET references == IF q.audit_trail THEN q.hits ELSE <<>>
    IN  [q EXCEPT !.pc = "done", !.answer = answer, !.llm = llm,
                  !.llm_calls = llm_calls, !.references = references,
                  !.grounded = Grounded(q.hits, references)]

\* _generate_answer and the rest of answer
GenerateAnswer ==
    /\ q.pc = "generate"
    /\ \/ /\ q.hits = <<>>
          /\ q' = AnswerResult(NotFoundAnswer, "not_invoked", 0)
       \/ /\ q.hits # <<>>
          /\ q.chain
          /\ q' = AnswerResult(GeneratedAnswer(q.question), "returned", 1)
       \/ /\ q.hits # <<>>
          /\ q.chain
          /\ q' = AnswerResult(FallbackAnswer(q.hits, q.question), "raised", 1)
       \/ /\ q.hits # <<>>
          /\ ~q.chain
          /\ q' = AnswerResult(FallbackAnswer(q.hits, q.question), "not_invoked", 0)
    /\ UNCHANGED <<store, now, nextUuid, upsertCalls, txn, lastCall, ingestLog, lastRead, chunked, emb>>

NextQuery ==
    \/ AnswerDenseRetrieval
    \/ RetrieveSparseAndFuse
    \/ GenerateAnswer

\* answer requests on a store at rest
SpecQuery == InitQuery /\ [][NextQuery]_vars

-----------------------------------------------------------------------------
(* An answer request next to ingest calls *)

\* the one ingest call that runs next to the request
IngestOnce == Len(ingestLog) = 0 /\ Ingest

NextRace ==
    \/ IngestOnce
    \/ ExecuteRow
    \/ Commit
    \/ AnswerDenseRetrieval
    \/ RetrieveSparseAndFuse
    \/ GenerateAnswer

\* one answer request interleaved with one ingest call on a store that
\* does not fail
SpecRace == InitStore /\ [][NextRace]_vars

-----------------------------------------------------------------------------
(* The chunker on its own *)

\* the lines texts are made of: a heading-like line, a line with leading
\* white space, an empty line and a line of white space
ChunkLines == {<<"h">>, <<" ", "b">>, <<>>, <<" ">>}

\* the texts of at most MaxLines lines
ChunkTexts ==
    {JoinLines(lines) : lines \in UNION {[1..n -> ChunkLines] : n \in 0..MaxLines}}

ChunkMetadata == {[document_id |-> "d1"], [document_id |-> "d1", title |-> <<"T">>]}

InitChunker ==
    /\ store = EmptyStore
    /\ now = 1
    /\ nextUuid = 0
    /\ upsertCalls = 0
    /\ txn = NoTxn
    /\ lastCall = NoCall
    /\ ingestLog = <<>>
    /\ lastRead = NoRead
    /\ q = NoQuery
    /\ chunked = NoChunked
    /\ emb = NoEmb

\* a call of HierarchicalChunker.chunk_document
ChunkDocument ==
    /\ chunked.pc = "idle"
    /\ \E text \in ChunkTexts, metadata \in ChunkMetadata :
         LET chunks == chunk_document(nextUuid + 1, metadata.document_id, text, metadata)
         IN  /\ chunked' = [pc |-> "done", document_id |-> metadata.document_id,
                            text |-> text, metadata |-> metadata, chunks |-> chunks]
             /\ nextUuid' = nextUuid + Len(chunks)
    /\ UNCHANGED <<store, now, upsertCalls, txn, lastCall, ingestLog, lastRead, q, emb>>

NextChunker == ChunkDocument

\* chunk_document called on bounded texts
SpecChunker == InitChunker /\ [][NextChunker]_vars

-----------------------------------------------------------------------------
(* The embedding adapter on its own *)

\* EMBEDDING_DIM values a deployment may configure
EmbeddingDims == {384, DefaultEmbeddingDim, 1536}

EmbedTexts == {<<"a">>, <<"a", " ", "b">>}

EmbedBatches == UNION {[1..n -> EmbedTexts] : n \in 0..MaxEmbedBatch}

\* the adapter instances of two requests
Instances == {"e1", "e2"}

\* ingest embeds the chunk contents, retrieve embeds the query
EmbedCallers == {"ingest", "retrieve"}

InitEmbed ==
    /\ store = EmptyStore
    /\ now = 1
    /\ nextUuid = 0
    /\ upsertCalls = 0
    /\ txn = NoTxn
    /\ lastCall = NoCall
    /\ ingestLog = <<>>
    /\ lastRead = NoRead
    /\ q = NoQuery
    /\ chunked = NoChunked
    /\ \E embedding_dim \in EmbeddingDims, model \in BOOLEAN :
          emb = IdleEmbedder(embedding_dim, model)

\* the last two embed calls
Remember(calls, call) ==
    IF calls = <<>> THEN <<call>> ELSE <<calls[Len(calls)], call>>

\* embed without a model: the fallback vectors
EmbedFallback ==
    /\ ~emb.model
    /\ \E instance \in Instances, caller \in EmbedCallers, texts \in EmbedBatches :
          emb' = [emb EXCEPT !.calls = Remember(@,
                     [instance |-> instance, caller |-> caller, texts |-> texts,
                      path |-> "fallback", encode_raised |-> FALSE,
                      outcome |-> "returned", vectors |-> EmbedBatch(texts),
                      request |-> "continues"])]
    /\ UNCHANGED <<store, now, nextUuid, upsertCalls, txn, lastCall, ingestLog, lastRead, q, chunked>>

\* embed with a loaded model whose encode returns
EmbedEncode ==
    /\ emb.model
    /\ \E instance \in Instances, caller \in EmbedCallers, texts \in EmbedBatches :
          emb' = [emb EXCEPT !.calls = Remember(@,
                     [instance |-> instance, caller |-> caller, texts |-> texts,
                      path |-> "model", encode_raised |-> FALSE,
                      outcome |-> "returned",
                      vectors |-> EncodeBatch(texts, emb.embedding_dim),
                      request |-> "continues"])]
    /\ UNCHANGED <<store, now, nextUuid, upsertCalls, txn, lastCall, ingestLog, lastRead, q, chunked>>

\* embed with a loaded model whose encode raises: embed has no handler and
\* neither ingest nor _dense_retrieval has one, so the request fails
EmbedEncodeRaises ==
    /\ emb.model
    /\ \E instance \in Instances, caller \in EmbedCallers, texts \in EmbedBatches :
          emb' = [emb EXCEPT !.calls = Remember(@,
                     [instance |-> instance, caller |-> caller, texts |-> texts,
                      path |-> "model", encode_raised |-> TRUE,
                      outcome |-> "raised", vectors |-> <<>>,
                      request |-> "failed"])]
    /\ UNCHANGED <<store, now, nextUuid, upsertCalls, txn, lastCall, ingestLog, lastRead, q, chunked>>

NextEmbed ==
    \/ EmbedFallback
    \/ EmbedEncode
    \/ EmbedEncodeRaises

\* embed calls on adapters with and without a model
SpecEmbed == InitEmbed /\ [][NextEmbed]_vars

-----------------------------------------------------------------------------
(* Properties of ingestion and of the chunk store *)

Done(i) == ingestLog[i].status = "done"

\* C1: two successful ingest calls with the same metadata["document_id"]
\* and the same document produce the same chunk_ids, and the second call
\* adds no row to the store.
C1_ReingestReusesChunkIds ==
    \A i, j \in 1..Len(ingestLog) :
        (/\ i < j
         /\ Done(i) /\ Done(j)
         /\ HasDocumentId(ingestLog[i].metadata)
         /\ ingestLog[i].metadata = ingestLog[j].metadata
         /\ ingestLog[i].parsed = ingestLog[j].parsed)
        => /\ ingestLog[i].chunk_ids = ingestLog[j].chunk_ids
           /\ (j = Len(ingestLog) /\ ~txn.active)
                 => Cardinality(DOMAIN store) = ingestLog[j].rows_before

\* the last payload of the batch for a chunk_id
LastPayload(batch, chunk_id) ==
    batch[CHOOSE i \in 1..Len(batch) :
            /\ batch[i].chunk_id = chunk_id
            /\ \A j \in 1..Len(batch) : batch[j].chunk_id = chunk_id => j <= i]

\* C2: after a committed upsert_chunks call every row that existed before
\* the call keeps its created_at, a row the call inserted carries the time
\* of the call, every row of the batch holds the content, metadata,
\* embedding and sparse_tokens of its last payload, and applying the same
\* batch once more, at any later time, changes nothing.
C2_UpsertKeepsCreatedAt ==
    (lastCall.op # "none" /\ ~lastCall.raised /\ ~txn.active) =>
        /\ \A id \in DOMAIN lastCall.pre :
              /\ id \in DOMAIN store
              /\ store[id].created_at = lastCall.pre[id].created_at
        /\ \A i \in 1..Len(lastCall.rows) :
              LET id == lastCall.rows[i].chunk_id
                  p == LastPayload(lastCall.rows, id)
              IN  /\ id \in DOMAIN store
                  /\ id \notin DOMAIN lastCall.pre => store[id].created_at = now
                  /\ store[id].content = p.content
                  /\ store[id].metadata = p.metadata
                  /\ store[id].embedding = DictGet(p, "embedding", NullEmbedding)
                  /\ store[id].sparse_tokens = DictGet(p, "sparse_tokens", NullTokens)
        /\ \A t \in now..MaxClock : UpsertRows(store, lastCall.rows, t) = store

\* a committed batch changed the content of a row inserted at an earlier time
C2_Witness ==
    /\ lastCall.op = "upsert_chunks" /\ ~lastCall.raised /\ ~txn.active
    /\ \E id \in DOMAIN lastCall.pre :
          /\ id \in {lastCall.rows[i].chunk_id : i \in 1..Len(lastCall.rows)}
          /\ store[id].content # lastCall.pre[id].content
          /\ store[id].created_at < now

\* C3: when a statement of the batch or its commit fails, the call raises
\* and the store is what it was before the call.
C3_FailedBatchLeavesNoRow ==
    lastCall.raised => store = lastCall.pre

\* a batch of three rows failed on its second row, after a first row that
\* would have changed the store
C3_Witness ==
    /\ lastCall.raised
    /\ Len(lastCall.rows) = 3
    /\ lastCall.failedAt = 2
    /\ UpsertRow(lastCall.pre, lastCall.rows[1], now) # lastCall.pre

IngestBatch(i) == Range(ingestLog[i].chunk_ids)

AllOrNone(ids, batch) == ids \cap batch = {} \/ batch \subseteq ids

\* C4 as stated: no read returns some but not all rows of one ingest call.
C4_ReadReturnsAllOrNone ==
    \A i \in 1..Len(ingestLog) : AllOrNone(lastRead.ids, IngestBatch(i))

\* C4: the statement of a read sees all rows of an ingest call or none of
\* them, and a read that returned fewer rows than its limit returned all
\* rows of an ingest call or none of them.
C4_UncutReadReturnsAllOrNone ==
    \A i \in 1..Len(ingestLog) :
        /\ AllOrNone(lastRead.visible, IngestBatch(i))
        /\ Cardinality(lastRead.ids) < lastRead.limit
              => AllOrNone(lastRead.ids, IngestBatch(i))

\* a read ran while an ingest had executed some of its rows, was not cut by
\* its limit and returned the rows of an earlier ingest
C4_Witness ==
    /\ lastRead.open_pos >= 1
    /\ Cardinality(lastRead.ids) < lastRead.limit
    /\ lastRead.ids # {}
    /\ Len(ingestLog) = 2
    /\ IngestBatch(1) \subseteq lastRead.ids

-----------------------------------------------------------------------------
(* Properties of retrieval and of the answer *)

Retrieved == q.pc \in {"generate", "done"}

\* 1/(k + r) for the 1-based position r of chunk_id in items, 0 without one
PositionShare(items, chunk_id) ==
    IF PositionOf(items, chunk_id) = 0 THEN Frac(0, 1)
    ELSE Frac(1, q.rrf_k + PositionOf(items, chunk_id))

ExpectedFusedScore(chunk_id) ==
    FracAdd(PositionShare(q.dense_hits, chunk_id),
            PositionShare(q.sparse_hits, chunk_id))

\* C5: retrieve returns at most top_k hits, no chunk_id twice, every
\* chunk_id from the dense or the sparse branch result, in order of
\* non-increasing score.
C5_RetrieveResult ==
    Retrieved =>
        /\ Len(q.hits) <= q.top_k
        /\ \A i, j \in 1..Len(q.hits) :
              i < j => /\ q.hits[i].chunk_id # q.hits[j].chunk_id
                       /\ ~FracLt(q.hits[i].score, q.hits[j].score)
        /\ ChunkIds(q.hits) \subseteq ChunkIds(q.dense_hits) \cup ChunkIds(q.sparse_hits)

\* three chunks were fused and top_k = 1 cut the result to one hit
C5_Witness ==
    /\ Retrieved
    /\ q.top_k = 1
    /\ Len(q.fused) = 3
    /\ Len(q.hits) = 1

\* C6: the fusion lists every chunk of either branch once, with the sum of
\* 1/(k + r) over the branches that contain it, r its position there.
C6_FusedScoreIsSumOfReciprocalRanks ==
    Retrieved =>
        /\ ChunkIds(q.fused) = ChunkIds(q.dense_hits) \cup ChunkIds(q.sparse_hits)
        /\ Cardinality(ChunkIds(q.fused)) = Len(q.fused)
        /\ \A i \in 1..Len(q.fused) :
              FracEq(q.fused[i].score, ExpectedFusedScore(q.fused[i].chunk_id))

\* a chunk of both branches, at different positions, whose raw scores are
\* not 1, next to a chunk of the sparse branch alone
C6_Witness ==
    /\ Retrieved
    /\ \E i, j \in 1..Len(q.fused) :
          LET id == q.fused[i].chunk_id
              dp == PositionOf(q.dense_hits, id)
              sp == PositionOf(q.sparse_hits, id)
          IN  /\ dp > 0 /\ sp > 0 /\ dp # sp
              /\ q.dense_hits[dp].score.num # 1
              /\ q.sparse_hits[sp].score.num # 1
              /\ PositionOf(q.dense_hits, q.fused[j].chunk_id) = 0

FirstIn(items, chunk_id) == items # <<>> /\ items[1].chunk_id = chunk_id

FirstInBoth(chunk_id) ==
    FirstIn(q.dense_hits, chunk_id) /\ FirstIn(q.sparse_hits, chunk_id)

FirstInOnlyOne(chunk_id) ==
    FirstIn(q.dense_hits, chunk_id) # FirstIn(q.sparse_hits, chunk_id)

\* C7: a chunk ranked first in both branches has the fused score 2/(k + 1),
\* which is strictly more than the score of every other fused chunk and of
\* every chunk that is first in one branch only, and it is the first hit.
C7_FirstInBothRanksFirst ==
    Retrieved =>
        \A i \in 1..Len(q.fused) :
            LET e == q.fused[i]
            IN  /\ FirstInBoth(e.chunk_id) =>
                      /\ FracEq(e.score, Frac(2, q.rrf_k + 1))
                      /\ i = 1
                      /\ \A j \in 1..Len(q.fused) :
                            j # i => FracLt(q.fused[j].score, e.score)
                      /\ q.top_k >= 1 => q.hits[1].chunk_id = e.chunk_id
                /\ FirstInOnlyOne(e.chunk_id) =>
                      FracLt(e.score, Frac(2, q.rrf_k + 1))

\* with the default k a chunk is first in both branches and other chunks
\* follow it
C7_Witness ==
    /\ Retrieved
    /\ q.rrf_k = DefaultRrfK
    /\ Len(q.hits) >= 2
    /\ FirstInBoth(q.hits[1].chunk_id)

InBothBranches(chunk_id) ==
    chunk_id \in ChunkIds(q.dense_hits) \cap ChunkIds(q.sparse_hits)

\* C8: a hit whose chunk_id is in both branch results has the content,
\* level, metadata and document_id of the sparse-branch hit and the fused
\* score.
C8_SparseAttributesWin ==
    Retrieved =>
        \A i \in 1..Len(q.hits) :
            InBothBranches(q.hits[i].chunk_id) =>
                LET sparse == q.sparse_hits[PositionOf(q.sparse_hits, q.hits[i].chunk_id)]
                IN  /\ q.hits[i].content = sparse.content
                    /\ q.hits[i].level = sparse.level
                    /\ q.hits[i].metadata = sparse.metadata
                    /\ q.hits[i].document_id = sparse.document_id
                    /\ FracEq(q.hits[i].score, ExpectedFusedScore(q.hits[i].chunk_id))

\* a returned hit is in both branches, which disagree on its level, and its
\* fused score differs from both raw scores
C8_Witness ==
    /\ Retrieved
    /\ \E i \in 1..Len(q.hits) :
          LET id == q.hits[i].chunk_id
          IN  /\ InBothBranches(id)
              /\ q.dense_hits[PositionOf(q.dense_hits, id)].level
                    # q.sparse_hits[PositionOf(q.sparse_hits, id)].level
              /\ ~FracEq(q.hits[i].score, q.dense_hits[PositionOf(q.dense_hits, id)].score)
              /\ ~FracEq(q.hits[i].score, q.sparse_hits[PositionOf(q.sparse_hits, id)].score)

\* C9: grounded is true exactly when retrieve returned a hit, whatever
\* audit_trail is; without hits the answer is the fixed message and the
\* generation chain is not invoked.
C9_GroundedIffHits ==
    q.pc = "done" =>
        /\ q.grounded = (q.hits # <<>>)
        /\ q.hits = <<>> =>
              /\ q.answer.kind = "No relevant answer found."
              /\ q.llm_calls = 0

\* a request with top_k >= 1 and a configured chain found nothing
C9_Witness ==
    /\ q.pc = "done"
    /\ q.top_k >= 1
    /\ q.chain
    /\ q.audit_trail
    /\ q.hits = <<>>

\* C10: with hits, and no chain or a chain that raised, answer returns the
\* extractive answer made of the question and of the chunk_id and content
\* of the first hit, whose fused score no other chunk exceeds.
C10_ExtractiveFallback ==
    /\ (q.pc = "generate" /\ q.hits # <<>>) => ENABLED GenerateAnswer
    /\ (q.pc = "done" /\ q.hits # <<>> /\ (~q.chain \/ q.llm = "raised")) =>
          /\ q.answer.kind = "Answer synthesized without LLM due to configuration limits."
          /\ q.answer.question = q.question
          /\ q.answer.chunk_id = q.hits[1].chunk_id
          /\ q.answer.content = q.hits[1].content
          /\ \A i \in 1..Len(q.fused) : ~FracLt(q.hits[1].score, q.fused[i].score)

\* the chain raised on a request with two hits of different content
C10_Witness ==
    /\ q.pc = "done"
    /\ q.chain
    /\ q.llm = "raised"
    /\ Len(q.hits) >= 2
    /\ q.hits[1].content # q.hits[2].content

\* the persisted row parent_id names, of the given level and of the
\* document of row id
ParentIs(id, level) ==
    /\ store[id].parent_id \in DOMAIN store
    /\ store[store[id].parent_id].level = level
    /\ store[store[id].parent_id].document_id = store[id].document_id

\* C12: every persisted title has no parent, every persisted section has a
\* persisted title of its document as parent, every persisted paragraph a
\* persisted section of its document.
C12_ParentsArePersisted ==
    \A id \in DOMAIN store :
        /\ store[id].level = "title" => store[id].parent_id = NoneStr
        /\ store[id].level = "section" => ParentIs(id, "title")
        /\ store[id].level = "paragraph" => ParentIs(id, "section")

\* after an ingest that raised partway and one that committed, a paragraph
\* is persisted
C12_Witness ==
    /\ ~txn.active
    /\ \E i \in 1..Len(ingestLog) :
          ingestLog[i].status = "raised" /\ Len(ingestLog[i].chunk_ids) >= 3
    /\ \E id \in DOMAIN store : store[id].level = "paragraph"

\* C13: no step removes a row or changes a column of a row that is in the
\* store, whatever document_id the ingest calls carry.
C13_IngestKeepsExistingRows ==
    [][\A id \in DOMAIN store : id \in DOMAIN store' /\ store'[id] = store[id]]_vars

\* two ingest calls with the same metadata document_id committed, the
\* second onto the rows of the first
C13_Witness ==
    /\ ~txn.active
    /\ Len(ingestLog) = 2
    /\ Done(1) /\ Done(2)
    /\ HasDocumentId(ingestLog[1].metadata)
    /\ ingestLog[1].metadata = ingestLog[2].metadata
    /\ ingestLog[2].rows_before > 0
    /\ Cardinality(DOMAIN store) > ingestLog[2].rows_before

\* the rows of level table that ingest call i wrote
TableRows(i) == {id \in IngestBatch(i) \cap DOMAIN store : store[id].level = "table"}

\* C16: a successful ingest reports as chunks the number of rows it wrote
\* and as tables the number of table-level rows it wrote.
C16_IngestReportsWhatItWrote ==
    \A i \in 1..Len(ingestLog) :
        Done(i) =>
            /\ IngestBatch(i) \subseteq DOMAIN store
            /\ ingestLog[i].result.chunks = Cardinality(IngestBatch(i))
            /\ ingestLog[i].result.tables = Cardinality(TableRows(i))

-----------------------------------------------------------------------------
(* Properties of the chunker *)

Blank(s) == Strip(s) = <<>>

\* the segments of the text are a title segment and n >= 0 further
\* segments, each with a non-blank line
TitleAndHeadingSegments(text) ==
    /\ ~Blank(text)
    /\ \A i \in 1..Len(default_split_regex_split(text)) :
          ~Blank(default_split_regex_split(text)[i])

\* the levels and contents the claim lists for one heading-led segment
SegmentLayout(segment) ==
    LET lines == StrippedNonBlank(SplitLines(segment))
    IN  <<[level |-> "section", content |-> lines[1]]>> \o
        [i \in 1..(Len(lines) - 1) |-> [level |-> "paragraph", content |-> lines[i + 1]]]

RECURSIVE SegmentsLayout(_)
SegmentsLayout(segments) ==
    IF segments = <<>> THEN <<>>
    ELSE SegmentLayout(Head(segments)) \o SegmentsLayout(Tail(segments))

LevelsAndContents(chunks) ==
    [i \in 1..Len(chunks) |-> [level |-> chunks[i].level, content |-> chunks[i].content]]

\* C11: for a text made of a title segment and n heading-led segments,
\* chunk_document returns one title chunk, then for each segment after the
\* title segment one section chunk with its first non-blank line and one
\* paragraph chunk per further non-blank line.
C11_TitleThenSectionPerHeading ==
    (chunked.pc = "done" /\ TitleAndHeadingSegments(chunked.text)) =>
        /\ chunked.chunks # <<>>
        /\ chunked.chunks[1].level = "title"
        /\ LevelsAndContents(Tail(chunked.chunks))
              = SegmentsLayout(Tail(default_split_regex_split(chunked.text)))

-----------------------------------------------------------------------------
(* Properties of the embedding adapter *)

\* C14: an embed call whose model raised returns the fallback vectors and
\* its request continues.
C14_EncodeFailureFallsBack ==
    \A i \in 1..Len(emb.calls) :
        emb.calls[i].encode_raised =>
            /\ emb.calls[i].outcome = "returned"
            /\ emb.calls[i].vectors = EmbedBatch(emb.calls[i].texts)
            /\ emb.calls[i].request = "continues"

\* the fallback calls among the remembered calls
FallbackCalls == {i \in 1..Len(emb.calls) : emb.calls[i].path = "fallback"}

UnitInterval(x) == 0 <= x.num /\ x.num <= x.den /\ x.den > 0

\* C17: without a model, embed returns one vector per text; equal texts get
\* equal vectors, component by component, in any two calls, on any adapter
\* instances, at any positions of any batches; every component is in [0, 1].
C17_FallbackIsFunctionOfText ==
    /\ \A i \in FallbackCalls :
          /\ emb.calls[i].outcome = "returned"
          /\ Len(emb.calls[i].vectors) = Len(emb.calls[i].texts)
          /\ \A a \in 1..Len(emb.calls[i].vectors) :
                LET components == Components(emb.calls[i].vectors[a])
                IN  \A k \in 1..Len(components) : UnitInterval(components[k])
    /\ \A i, j \in FallbackCalls :
          \A a \in 1..Len(emb.calls[i].texts), b \in 1..Len(emb.calls[j].texts) :
              emb.calls[i].texts[a] = emb.calls[j].texts[b] =>
                  /\ emb.calls[i].vectors[a] = emb.calls[j].vectors[b]
                  /\ Components(emb.calls[i].vectors[a])
                        = Components(emb.calls[j].vectors[b])

\* two adapter instances embedded the same text at different positions of
\* different batches, and another text got another vector
C17_Witness ==
    /\ Len(emb.calls) = 2
    /\ FallbackCalls = {1, 2}
    /\ emb.calls[1].instance # emb.calls[2].instance
    /\ emb.calls[1].caller # emb.calls[2].caller
    /\ Len(emb.calls[1].texts) = 1
    /\ Len(emb.calls[2].texts) = 2
    /\ emb.calls[2].texts[1] # emb.calls[1].texts[1]
    /\ emb.calls[2].texts[2] = emb.calls[1].texts[1]
    /\ Components(emb.calls[2].vectors[1]) # Components(emb.calls[2].vectors[2])

\* C18: in fallback mode every vector embed returns has the dimension of
\* the store's embedding column.
C18_FallbackMatchesStoreDimension ==
    \A i \in FallbackCalls :
        \A a \in 1..Len(emb.calls[i].vectors) :
            Len(Components(emb.calls[i].vectors[a])) = emb.embedding_dim

C20_BranchesSeeSameRows ==
    Retrieved => q.dense_visible = q.sparse_visible

-----------------------------------------------------------------------------
(* Reproducibility of retrieval *)

\* HybridRetriever.retrieve on rows, when the dense query returns the rows
\* dense_order, the corpus query the rows sparse_order, and the scores of the
\* rows are distance and bm25
RetrieveOn(rows, dense_order, sparse_order, distance, bm25, top_k, rrf_k) ==
    LET dense_hits == dense_search(rows, dense_order, distance)
        corpus == fetch_sparse_corpus(rows, sparse_order)
        sparse_hits == sparse_retrieval(corpus,
                           [i \in 1..Len(corpus) |-> bm25[corpus[i].chunk_id]],
                           SparseFactor * top_k)
        fused == reciprocal_rank_fusion(Rankings(dense_hits, sparse_hits), rrf_k)
    IN  Retrieve(dense_hits, sparse_hits, fused, top_k)

HitIds(hits) == [i \in 1..Len(hits) |-> hits[i].chunk_id]

\* C15: whatever order the store returns the rows in, retrieve returns the
\* same list of chunk_ids for the same rows, scores, query and top_k.
C15_RetrieveIgnoresRowOrder ==
    Retrieved =>
        \A dense_order \in RowOrders(DenseCandidates(store), DenseFactor * q.top_k) :
            OrderedByDistance(dense_order, store, q.distance) =>
                \A sparse_order \in RowOrders(DOMAIN store, SparseCorpusLimit) :
                    HitIds(RetrieveOn(store, dense_order, sparse_order, q.distance,
                                      q.bm25, q.top_k, q.rrf_k))
                        = HitIds(q.hits)

====
